---- MODULE Spec2Model ----
(***************************************************************************)
(* TVChart (src/tvchart/chart.py): a builder that accumulates drawing      *)
(* instructions for a chart and renders them through templates.            *)
(*                                                                         *)
(* A rendered template is kept as the record of the template name and the  *)
(* parameters handed to it, and orjson.dumps(x) as the structure x: the    *)
(* templates and the serializer are collaborators outside chart.py.        *)
(* An Optional value is None == << >> or Some(x) == << x >>.               *)
(* A Python dict whose iteration order matters is a sequence of            *)
(* [key, value] entries with distinct keys; an options dict (str keys) is  *)
(* a function on its key set.                                              *)
(***************************************************************************)
EXTENDS Integers, Sequences, FiniteSets, TLC

VARIABLES
    time_series,     \* self.time_series: None or the list of epoch seconds
    chart_options,   \* self.chart_options
    series_markers,  \* self.series_markers: ordered dict name -> list of marker records
    legend_html,     \* self.legend_html
    drawings,        \* self.__drawings: list of rendered instructions
    content,         \* what the last html() call returned
    files,           \* what save() wrote, per path
    last,            \* the last call made on the builder, its arguments and how it ended
    calls            \* number of calls made so far

vars == <<time_series, chart_options, series_markers, legend_html, drawings,
          content, files, last, calls>>

builder == <<time_series, chart_options, series_markers, legend_html, drawings>>

----------------------------------------------------------------------------
(* Bounds of the model. *)

\* longest input sequence (timestamps, columns, series, index mappings)
MaxLen == 2

\* number of calls made on one builder
MaxCalls == 3

----------------------------------------------------------------------------
(* Python values. *)

None == << >>

Some(x) == << x >>

EmptyDict == [k \in {} |-> 0]

\* d[k] = v on a str-keyed dict
DictSet(d, k, v) == [z \in (DOMAIN d) \cup {k} |-> IF z = k THEN v ELSE d[z]]

\* {**a, **b}: the keys of both, b's value where both have the key
DictSpread(a, b) ==
    [z \in (DOMAIN a) \cup (DOMAIN b) |-> IF z \in DOMAIN b THEN b[z] ELSE a[z]]

HasKey(d, k) == \E i \in 1..Len(d) : d[i].key = k

\* d.get(k, default)
DictGet(d, k, default) ==
    IF HasKey(d, k)
    THEN d[CHOOSE i \in 1..Len(d) : d[i].key = k].value
    ELSE default

\* d[k] = v on an ordered dict: an existing key keeps its place, a new key goes last
DictPut(d, k, v) ==
    IF HasKey(d, k)
    THEN [i \in 1..Len(d) |-> IF d[i].key = k THEN [key |-> k, value |-> v] ELSE d[i]]
    ELSE Append(d, [key |-> k, value |-> v])

\* {e.key: e.value for e in entries}: entries inserted left to right
RECURSIVE DictOf(_)
DictOf(entries) ==
    IF entries = << >>
    THEN << >>
    ELSE LET n == Len(entries)
         IN  DictPut(DictOf(SubSeq(entries, 1, n - 1)), entries[n].key, entries[n].value)

Min(S) == CHOOSE m \in S : \A n \in S : m <= n

\* bool(x) of an Optional list: None and [] are falsy
Truthy(x) == x # None /\ x[1] # << >>

\* seq[k] with Python's indexing: k counts from 0, a negative k from the end
InRange(seq, k) == -Len(seq) <= k /\ k < Len(seq)

PyIndex(seq, k) == IF k >= 0 THEN seq[k + 1] ELSE seq[Len(seq) + k + 1]

----------------------------------------------------------------------------
(* Timestamps.  A date string is what the parser reads from it: whether it *)
(* parses, the wall-clock time (seconds since 1970-01-01 00:00:00 on the   *)
(* clock the string names) and the UTC offset the string states.           *)

UTC == 0

Parses(x) == x.valid

\* parser.parse(x): the datetime the string names
Parse(x) == [wall |-> x.wall, off |-> x.off]

\* datetime.replace(tzinfo=tz): same wall clock, other zone
ReplaceTzinfo(dt, tz) == [wall |-> dt.wall, off |-> tz]

\* datetime.timestamp() of an aware datetime, then int()
Timestamp(dt) == dt.wall - dt.off

\* with astimezone(UTC) in place of replace(tzinfo=UTC): the instant the string names
ToEpochConverted(x) == Timestamp(Parse(x))

\* int(parser.parse(x).replace(tzinfo=UTC).timestamp())
ToEpoch(x) == Timestamp(ReplaceTzinfo(Parse(x), UTC))

\* the list comprehension of add_ohlcv: the values parsed before the first
\* string that does not parse, and whether every string parsed
RECURSIVE ParseAll(_)
ParseAll(t) ==
    IF t = << >>
    THEN [ok |-> TRUE, axis |-> << >>]
    ELSE LET r == ParseAll(SubSeq(t, 1, Len(t) - 1))
         IN  IF r.ok /\ Parses(t[Len(t)])
             THEN [ok |-> TRUE, axis |-> Append(r.axis, ToEpoch(t[Len(t)]))]
             ELSE [ok |-> FALSE, axis |-> r.axis]

----------------------------------------------------------------------------
(* Instructions. *)

Candlestick == "Candlestick"
Histogram == "Histogram"
Line == "Line"

\* __fill_template("actions/add_series.html", {...})
SeriesInstr(type, name, options, data) ==
    [template |-> "actions/add_series.html",
     params |-> [type |-> type, series_name |-> name, options |-> options, data |-> data]]

\* __fill_template("actions/add_priceline.html", {...})
PriceLineInstr(name, data) ==
    [template |-> "actions/add_priceline.html",
     params |-> [series_name |-> name, data |-> data]]

\* __fill_template("actions/add_markers.html", {...})
MarkersInstr(name, data) ==
    [template |-> "actions/add_markers.html",
     params |-> [series_name |-> name, data |-> data]]

\* zip(time_series, o, h, l, c): as long as the shortest
OhlcData(ts, o, h, l, c) ==
    [i \in 1..Min({Len(ts), Len(o), Len(h), Len(l), Len(c)}) |->
        [time |-> ts[i], open |-> o[i], high |-> h[i], low |-> l[i], close |-> c[i]]]

\* zip(time_series, v)
ValueData(ts, v) ==
    [i \in 1..Min({Len(ts), Len(v)}) |-> [time |-> ts[i], value |-> v[i]]]

\* with priceFormat and priceScaleId filled in only when the caller gave none
VolumeDefaultsForcedOnlyIfAbsent(volume_options) ==
    LET d0 == IF volume_options = None THEN EmptyDict ELSE volume_options[1]
        d1 == IF "priceFormat" \in DOMAIN d0 THEN d0
              ELSE DictSet(d0, "priceFormat", [type |-> "volume"])
        d2 == IF "priceScaleId" \in DOMAIN d1 THEN d1 ELSE DictSet(d1, "priceScaleId", "")
        d3 == IF "scaleMargins" \in DOMAIN d2 THEN d2
              ELSE DictSet(d2, "scaleMargins", [top |-> "0.9", bottom |-> "0"])
    IN  IF "color" \in DOMAIN d3 THEN d3 ELSE DictSet(d3, "color", "#26a69a")

\* the options of the volume series
VolumeOptions(volume_options) ==
    LET d0 == IF volume_options = None THEN EmptyDict ELSE volume_options[1]
        d1 == DictSet(d0, "priceFormat", [type |-> "volume"])
        d2 == DictSet(d1, "priceScaleId", "")
        d3 == IF "scaleMargins" \in DOMAIN d2 THEN d2
              ELSE DictSet(d2, "scaleMargins", [top |-> "0.9", bottom |-> "0"])
    IN  IF "color" \in DOMAIN d3 THEN d3 ELSE DictSet(d3, "color", "#26a69a")

----------------------------------------------------------------------------
(* Calls. *)

\* a call returns
Return(op, args) ==
    /\ last' = [op |-> op, args |-> args, outcome |-> "ok"]
    /\ calls' = calls + 1

\* a call raises before it has changed the builder
Raise(op, args, error) ==
    /\ last' = [op |-> op, args |-> args, outcome |-> error]
    /\ calls' = calls + 1
    /\ UNCHANGED <<builder, content, files>>

TVChart(mode, options) ==
    /\ time_series = None
    /\ chart_options =
          IF mode = "interday"
          THEN Some(DictSet(IF options = None THEN EmptyDict ELSE options[1], "timeScale",
                            [timeVisible |-> TRUE, secondsVisible |-> FALSE]))
          ELSE options
    /\ series_markers = << >>
    /\ legend_html = None
    /\ drawings = << >>
    /\ content = None
    /\ files = EmptyDict
    /\ last = [op |-> "__init__", args |-> [mode |-> mode, chart_options |-> options],
               outcome |-> "ok"]
    /\ calls = 0

set_legend_html(html) ==
    /\ calls < MaxCalls
    /\ legend_html' = Some(html)
    /\ Return("set_legend_html", [html |-> html])
    /\ UNCHANGED <<time_series, chart_options, series_markers, drawings, content, files>>

\* self.time_series after the comprehension raised: the assignment never ran
\* with the axis filled element by element: the timestamps parsed before the failure
AxisAfterFailurePartial(old, parsed) == Some(parsed.axis)

AxisAfterFailure(old, parsed) == old

\* with the list rebuilt by the call instead of appended to
AppendedReplacing(old, new) == new

\* self.__drawings after the appends of one call
Appended(old, new) == old \o new

OhlcvArgs(t, o, h, l, c, v, ohlc_options, volume_options) ==
    [t |-> t, o |-> o, h |-> h, l |-> l, c |-> c, v |-> v,
     ohlc_options |-> ohlc_options, volume_options |-> volume_options]

add_ohlcv(t, o, h, l, c, v, ohlc_options, volume_options) ==
    /\ calls < MaxCalls
    /\ LET parsed == ParseAll(t)
       IN  IF ~parsed.ok
           THEN /\ time_series' = AxisAfterFailure(time_series, parsed)
                /\ last' = [op |-> "add_ohlcv",
                            args |-> OhlcvArgs(t, o, h, l, c, v, ohlc_options,
                                               volume_options),
                            outcome |-> "ParserError"]
                /\ calls' = calls + 1
                /\ UNCHANGED <<chart_options, series_markers, legend_html, drawings,
                               content, files>>
           ELSE LET ohlc == SeriesInstr(Candlestick, "ohlc", ohlc_options,
                                        OhlcData(parsed.axis, o, h, l, c))
                    volume == SeriesInstr(Histogram, "volume", VolumeOptions(volume_options),
                                          ValueData(parsed.axis, v[1]))
                IN  /\ time_series' = Some(parsed.axis)
                    /\ drawings' = Appended(drawings,
                                            IF Truthy(v) THEN <<ohlc, volume>> ELSE <<ohlc>>)
                    /\ Return("add_ohlcv",
                              OhlcvArgs(t, o, h, l, c, v, ohlc_options, volume_options))
                    /\ UNCHANGED <<chart_options, series_markers, legend_html, content, files>>

\* the AddMarkers instructions html() appends: one per entry, in iteration order
MarkerFlush(markers) ==
    [i \in 1..Len(markers) |-> MarkersInstr(markers[i].key, markers[i].value)]

\* __fill_template("index.html", {...})
Document(options, legend, instrs) ==
    [template |-> "index.html",
     params |-> [chart_options |-> options, legend_html |-> legend, drawings |-> instrs]]

\* with the markers flushed into a fresh list, the persistent one left alone
htmlFreshList ==
    /\ calls < MaxCalls
    /\ content' = Some(Document(chart_options, legend_html,
                                drawings \o MarkerFlush(series_markers)))
    /\ Return("html", << >>)
    /\ UNCHANGED <<builder, files>>

html ==
    /\ calls < MaxCalls
    /\ drawings' = Appended(drawings, MarkerFlush(series_markers))
    /\ content' = Some(Document(chart_options, legend_html, drawings'))
    /\ Return("html", << >>)
    /\ UNCHANGED <<time_series, chart_options, series_markers, legend_html, files>>

save(file_path) ==
    /\ calls < MaxCalls
    /\ drawings' = Appended(drawings, MarkerFlush(series_markers))
    /\ content' = Some(Document(chart_options, legend_html, drawings'))
    /\ files' = DictSet(files, file_path, content'[1])
    /\ Return("save", [file_path |-> file_path])
    /\ UNCHANGED <<time_series, chart_options, series_markers, legend_html>>

\* options, or {} when it is not a dict, with options["pane"] = pane
PaneOptions(options, pane) ==
    DictSet(IF options = None THEN EmptyDict ELSE options[1], "pane", pane)

\* with the filter `if i[1]` in place of `is not None`: a value of 0 is dropped too
SeriesDataTruthy(ts, series) ==
    LET zipped == [i \in 1..Min({Len(ts), Len(series)}) |-> <<ts[i], series[i]>>]
        kept == SelectSeq(zipped, LAMBDA x : x[2] # None /\ x[2][1] # 0)
    IN  [i \in 1..Len(kept) |-> [time |-> kept[i][1], value |-> kept[i][2][1]]]

\* the points of add_series: zip(time_series, series) without the pairs whose value is None
SeriesData(ts, series) ==
    LET zipped == [i \in 1..Min({Len(ts), Len(series)}) |-> <<ts[i], series[i]>>]
        kept == SelectSeq(zipped, LAMBDA x : x[2] # None)
    IN  [i \in 1..Len(kept) |-> [time |-> kept[i][1], value |-> kept[i][2][1]]]

SeriesArgs(name, pane, series, type, options) ==
    [name |-> name, pane |-> pane, series |-> series, type |-> type, options |-> options]

add_series(name, pane, series, type, options) ==
    /\ calls < MaxCalls
    /\ IF time_series = None
       THEN Raise("add_series", SeriesArgs(name, pane, series, type, options), "TypeError")
       ELSE /\ drawings' = Appended(drawings,
                               <<SeriesInstr(type, name, PaneOptions(options, pane),
                                             SeriesData(time_series[1], series))>>)
            /\ Return("add_series", SeriesArgs(name, pane, series, type, options))
            /\ UNCHANGED <<time_series, chart_options, series_markers, legend_html,
                           content, files>>

add_price_line(name, price, color, line_width, line_style, axis_label_visiable, title) ==
    /\ calls < MaxCalls
    /\ drawings' = Appended(drawings,
                       <<PriceLineInstr(name, [price |-> price, color |-> color,
                                               lineWidth |-> line_width,
                                               lineStyle |-> line_style,
                                               axisLabelVisible |-> axis_label_visiable,
                                               title |-> title])>>)
    /\ Return("add_price_line",
              [name |-> name, price |-> price, color |-> color, line_width |-> line_width,
               line_style |-> line_style, axis_label_visiable |-> axis_label_visiable,
               title |-> title])
    /\ UNCHANGED <<time_series, chart_options, series_markers, legend_html, content, files>>

\* the arguments of add_markers_by_time and add_markers_by_idx
MarkerCall(name, mapping, options) ==
    [name |-> name, mapping |-> mapping, options |-> options]

\* [{"time": k, "text": v, **options} for k, v in time_dict.items()]
MarkerRecords(time_dict, options) ==
    [i \in 1..Len(time_dict) |->
        DictSpread([time |-> time_dict[i].key, text |-> time_dict[i].value], options)]

\* with = in place of +=: the records of the call replace those kept for the name
MarkersAfterCallReplacing(markers, name, time_dict, options) ==
    DictPut(markers, name, MarkerRecords(time_dict, options))

\* self.series_markers after add_markers_by_time
MarkersAfterCall(markers, name, time_dict, options) ==
    DictPut(markers, name,
            DictGet(markers, name, << >>) \o MarkerRecords(time_dict, options))

add_markers_by_time(name, time_dict, options) ==
    /\ calls < MaxCalls
    /\ series_markers' = MarkersAfterCall(series_markers, name, time_dict, options)
    /\ Return("add_markers_by_time", MarkerCall(name, time_dict, options))
    /\ UNCHANGED <<time_series, chart_options, legend_html, drawings, content, files>>

\* {self.time_series[k]: v for k, v in idx_dict.items()}
TimeDictOfIdx(ts, idx_dict) ==
    DictOf([i \in 1..Len(idx_dict) |->
               [key |-> PyIndex(ts, idx_dict[i].key), value |-> idx_dict[i].value]])

add_markers_by_idx(name, idx_dict, options) ==
    /\ calls < MaxCalls
    /\ IF idx_dict # << >> /\ time_series = None
       THEN Raise("add_markers_by_idx", MarkerCall(name, idx_dict, options), "TypeError")
       ELSE IF \E i \in 1..Len(idx_dict) : ~InRange(time_series[1], idx_dict[i].key)
       THEN Raise("add_markers_by_idx", MarkerCall(name, idx_dict, options), "IndexError")
       ELSE /\ series_markers' =
                  MarkersAfterCall(series_markers, name,
                                   IF idx_dict = << >> THEN << >>
                                   ELSE TimeDictOfIdx(time_series[1], idx_dict),
                                   options)
            /\ Return("add_markers_by_idx", MarkerCall(name, idx_dict, options))
            /\ UNCHANGED <<time_series, chart_options, legend_html, drawings, content, files>>

\* the arguments of add_lines_by_time and add_lines_by_idx
LineArgs(name, pane, lines, type, options) ==
    [name |-> name, pane |-> pane, lines |-> lines, type |-> type, options |-> options]

\* the instructions of add_lines_by_time: one two-point series per line, named name + index
LineInstrs(name, pane, time_lines, type, options) ==
    [i \in 1..Len(time_lines) |->
        SeriesInstr(type, name \o ToString(i - 1), PaneOptions(options, pane),
                    <<[time |-> time_lines[i][1], value |-> time_lines[i][2]],
                      [time |-> time_lines[i][3], value |-> time_lines[i][4]]>>)]

add_lines_by_time(name, pane, time_lines, type, options) ==
    /\ calls < MaxCalls
    /\ drawings' = Appended(drawings, LineInstrs(name, pane, time_lines, type, options))
    /\ Return("add_lines_by_time", LineArgs(name, pane, time_lines, type, options))
    /\ UNCHANGED <<time_series, chart_options, series_markers, legend_html, content, files>>

\* [(self.time_series[x1], y1, self.time_series[x2], y2) for x1, y1, x2, y2 in idx_lines]
TimeLinesOfIdx(ts, idx_lines) ==
    [i \in 1..Len(idx_lines) |->
        <<PyIndex(ts, idx_lines[i][1]), idx_lines[i][2],
          PyIndex(ts, idx_lines[i][3]), idx_lines[i][4]>>]

add_lines_by_idx(name, pane, idx_lines, type, options) ==
    /\ calls < MaxCalls
    /\ IF idx_lines # << >> /\ time_series = None
       THEN Raise("add_lines_by_idx", LineArgs(name, pane, idx_lines, type, options),
                  "TypeError")
       ELSE IF \E i \in 1..Len(idx_lines) :
                  \/ ~InRange(time_series[1], idx_lines[i][1])
                  \/ ~InRange(time_series[1], idx_lines[i][3])
       THEN Raise("add_lines_by_idx", LineArgs(name, pane, idx_lines, type, options),
                  "IndexError")
       ELSE /\ drawings' =
                  Appended(drawings,
                           LineInstrs(name, pane,
                                      IF idx_lines = << >> THEN << >>
                                      ELSE TimeLinesOfIdx(time_series[1], idx_lines),
                                      type, options))
            /\ Return("add_lines_by_idx", LineArgs(name, pane, idx_lines, type, options))
            /\ UNCHANGED <<time_series, chart_options, series_markers, legend_html,
                           content, files>>

----------------------------------------------------------------------------
(* The calls a caller makes: the inputs of each operation. *)

SeqsUpTo(S, n) == UNION {[1..k -> S] : k \in 0..n}

Names == {"ohlc", "sma"}

\* a string no parser reads, "1970-01-01T00:00:10Z" and "1970-01-01T00:00:20+00:00:10"
BadDate == [valid |-> FALSE, wall |-> 0, off |-> 0]
DateA == [valid |-> TRUE, wall |-> 10, off |-> 0]
DateB == [valid |-> TRUE, wall |-> 20, off |-> 10]

\* a column of a price table: row i of the column numbered col holds 100 * col + i
Column(col, n) == [i \in 1..n |-> 100 * col + i]

DefaultMarkerOptions == [color |-> "red", shape |-> "arrowUp", position |-> "belowBar"]

Modes == {"regular", "interday"}

\* the columns of a price table of n rows
Table(t, n) ==
    OhlcvArgs(t, Column(1, n), Column(2, n), Column(3, n), Column(4, n), None, None, None)

\* MaxLen timestamps: all equal, and out of order
FlatDates == [i \in 1..MaxLen |-> DateA]
MixedDates == [i \in 1..MaxLen |-> IF i = 1 THEN DateB ELSE DateA]

\* MaxLen timestamps, the k-th of which does not parse
BadDates(k) == [i \in 1..MaxLen |-> IF i = k THEN BadDate ELSE DateB]

\* add_ohlcv: a few tables, and tables with a timestamp that does not parse
AxisInputs ==
    {Table(t, Len(t)) :
        t \in {<< >>, <<DateA>>, FlatDates, MixedDates} \cup {BadDates(k) : k \in 1..MaxLen}}

\* add_ohlcv: every sequence of timestamps that parse, with columns as long as it;
\* one column a row short; a volume column with volume options
OhlcvInputs ==
    {Table(t, Len(t)) : t \in SeqsUpTo({DateA, DateB}, MaxLen)}
    \cup
    {[Table(MixedDates, MaxLen) EXCEPT ![col] = SubSeq(@, 1, MaxLen - 1)] :
        col \in {"o", "h", "l", "c"}}
    \cup
    {[Table(<<DateA>>, 1) EXCEPT !.v = v, !.volume_options = vo,
                                 !.ohlc_options = Some([upColor |-> "green"])] :
        v \in {None, Some(<< >>), Some(Column(5, 1))},
        vo \in {None, Some(EmptyDict),
                Some([priceScaleId |-> "right", color |-> "blue"]),
                Some([priceFormat |-> [type |-> "price"],
                      scaleMargins |-> [top |-> "0.5", bottom |-> "0"]])}}

\* add_series: every series of at most MaxLen values where row i holds i - 1 or
\* None; a Candlestick series with caller options
SeriesInputs ==
    {[name |-> "sma", pane |-> 1,
      series |-> [i \in 1..n |-> IF i \in rows THEN Some(i - 1) ELSE None],
      type |-> Line, options |-> None] :
        n \in 0..MaxLen, rows \in SUBSET (1..MaxLen)}
    \cup
    {[name |-> "ohlc", pane |-> 0, series |-> <<Some(7)>>, type |-> Candlestick,
      options |-> Some([pane |-> 9, color |-> "blue"])]}

\* the ordered mappings of at most n keys from K, the i-th key mapped to the i-th text
MappingsUpTo(K, n) ==
    {[i \in 1..Len(ks) |-> [key |-> ks[i], value |-> <<"a", "b", "c", "d">>[i]]] :
        ks \in {s \in SeqsUpTo(K, n) : \A i, j \in 1..Len(s) : i # j => s[i] # s[j]}}

\* add_markers_by_time: every mapping of the times 10 and 20 for each name; options
\* that set the shape, the color and the position, and options with a time or a text
MarkerTimeInputs ==
    {MarkerCall(name, time_dict, DefaultMarkerOptions) :
        name \in Names, time_dict \in MappingsUpTo({10, 20}, 2)}
    \cup
    {MarkerCall("ohlc", <<[key |-> 10, value |-> "a"]>>, options) :
        options \in {[color |-> "blue", shape |-> "circle", position |-> "aboveBar"],
                     [color |-> "blue", time |-> 99], [text |-> "zz"]}}

\* indices into an axis of at most MaxLen times: below 0, the first, the last, past the end
Indices == {-1, 0, MaxLen - 1, MaxLen}

\* add_markers_by_idx: every mapping of at most two indices
MarkerIdxInputs ==
    {MarkerCall("ohlc", idx_dict, DefaultMarkerOptions) :
        idx_dict \in MappingsUpTo(Indices, 2)}

LineCall(name, pane, lines) == LineArgs(name, pane, lines, Line, None)

\* add_lines_by_idx: no line, a line between each two of the indices 0, -1 and MaxLen,
\* and two lines
LineIdxInputs ==
    {LineCall("trend", 0, lines) :
        lines \in {<< >>, <<<<0, 1, MaxLen - 1, 2>>>>, <<<<0, 1, MaxLen, 2>>>>,
                   <<<<-1, 1, 0, 2>>>>, <<<<MaxLen, 1, 0, 2>>>>,
                   <<<<0, 1, 0, 1>>, <<MaxLen - 1, 2, 0, 3>>>>}}

\* add_lines_by_time
LineTimeInputs ==
    {[LineCall("level", 1, lines) EXCEPT !.options = Some([color |-> "blue"])] :
        lines \in {<<<<10, 1, 20, 2>>>>, <<<<10, 1, 20, 2>>, <<20, 2, 10, 3>>>>}}

Ohlcv(inputs) ==
    \E in \in inputs :
        add_ohlcv(in.t, in.o, in.h, in.l, in.c, in.v, in.ohlc_options, in.volume_options)

Series(inputs) ==
    \E in \in inputs : add_series(in.name, in.pane, in.series, in.type, in.options)

MarkersByTime(inputs) ==
    \E in \in inputs : add_markers_by_time(in.name, in.mapping, in.options)

MarkersByIdx(inputs) ==
    \E in \in inputs : add_markers_by_idx(in.name, in.mapping, in.options)

LinesByIdx(inputs) ==
    \E in \in inputs : add_lines_by_idx(in.name, in.pane, in.lines, in.type, in.options)

LinesByTime(inputs) ==
    \E in \in inputs : add_lines_by_time(in.name, in.pane, in.lines, in.type, in.options)

\* a builder in either mode, and a regular one
Init == \E mode \in Modes : TVChart(mode, None)

InitRegular == TVChart("regular", None)

\* every operation; add_ohlcv with a few tables
Next ==
    \/ Ohlcv(AxisInputs)
    \/ Series(SeriesInputs)
    \/ add_price_line("ohlc", 50, "red", 2, 2, TRUE, None)
    \/ MarkersByTime(MarkerTimeInputs)
    \/ MarkersByIdx(MarkerIdxInputs)
    \/ LinesByIdx(LineIdxInputs)
    \/ LinesByTime(LineTimeInputs)
    \/ set_legend_html("<b>legend</b>")
    \/ html
    \/ save("chart.html")

Spec == Init /\ [][Next]_vars

\* price tables and rendering
NextOhlcv ==
    \/ Ohlcv(OhlcvInputs)
    \/ html

SpecOhlcv == InitRegular /\ [][NextOhlcv]_vars

----------------------------------------------------------------------------
(* Properties.  In a step that is a call, last' holds the call, its arguments *)
(* and its outcome; the unprimed variables are the builder before the call.   *)

IsPrefix(a, b) == Len(a) <= Len(b) /\ SubSeq(b, 1, Len(a)) = a

\* the instructions a step adds at the end of the list
Added == SubSeq(drawings', Len(drawings) + 1, Len(drawings'))

IsMarkersFor(instr, name) ==
    instr.template = "actions/add_markers.html" /\ instr.params.series_name = name

IsSeriesOf(instr, type) ==
    instr.template = "actions/add_series.html" /\ instr.params.type = type

MarkerInstrCount(instrs, name) ==
    Cardinality({i \in 1..Len(instrs) : IsMarkersFor(instrs[i], name)})

SeriesCount(instrs, type) ==
    Cardinality({i \in 1..Len(instrs) : IsSeriesOf(instrs[i], type)})

\* the step is a call of op
Called(op) == calls' = calls + 1 /\ last'.op = op

\* the step is a call of op that returned
Returned(op) == Called(op) /\ last'.outcome = "ok"

\* the step is a call that raised and left the builder as it was
Failed == last'.outcome # "ok" /\ UNCHANGED builder

\* the step is a call of html(), directly or from save()
RenderStep == Called("html") \/ Called("save")

\* C1: every render appends, after the instructions already in the list, one
\* AddMarkers instruction per name of the marker accumulator, in the accumulator's
\* order and with that name's markers; it clears neither the accumulator nor the
\* list, and it returns the list so extended: each render raises the number of
\* AddMarkers instructions of every accumulated name by one, in the list and in
\* the output.
C1_RenderAppendsMarkers ==
    [][RenderStep =>
          /\ series_markers' = series_markers
          /\ IsPrefix(drawings, drawings')
          /\ Len(Added) = Len(series_markers)
          /\ \A i \in 1..Len(series_markers) :
                /\ IsMarkersFor(Added[i], series_markers[i].key)
                /\ Added[i].params.data = series_markers[i].value
          /\ content'[1].params.drawings = drawings'
          /\ \A i \in 1..Len(series_markers) :
                MarkerInstrCount(content'[1].params.drawings, series_markers[i].key)
                    = MarkerInstrCount(drawings, series_markers[i].key) + 1]_vars

\* the output of a second render holds two AddMarkers instructions for a name
C1_SecondRenderDuplicates ==
    /\ last.op = "html"
    /\ \E i \in 1..Len(series_markers) :
          /\ series_markers[i].value # << >>
          /\ MarkerInstrCount(content[1].params.drawings, series_markers[i].key) = 2

\* every timestamp of t parses
AllParse(t) == \A i \in 1..Len(t) : t[i].valid

EqualLength(in) ==
    /\ Len(in.o) = Len(in.t)
    /\ Len(in.h) = Len(in.t)
    /\ Len(in.l) = Len(in.t)
    /\ Len(in.c) = Len(in.t)

\* C2: an add_ohlcv call with t, o, h, l, c of one length N, every timestamp
\* parseable, adds exactly one Candlestick instruction; it is named "ohlc" and has
\* N points, point i holding the epoch seconds of t[i] (its wall-clock reading taken
\* as UTC: parse, then replace the zone by UTC) and o[i], h[i], l[i], c[i]; a render
\* adds no Candlestick instruction and returns the list with those it holds.
C2_OhlcvCandlesInOrder ==
    [][/\ ( Called("add_ohlcv") /\ AllParse(last'.args.t) /\ EqualLength(last'.args) )
          => LET in == last'.args
             IN  /\ last'.outcome = "ok"
                 /\ IsPrefix(drawings, drawings')
                 /\ SeriesCount(Added, Candlestick) = 1
                 /\ IsSeriesOf(Added[1], Candlestick)
                 /\ Added[1].params.series_name = "ohlc"
                 /\ Len(Added[1].params.data) = Len(in.t)
                 /\ \A i \in 1..Len(in.t) :
                       Added[1].params.data[i] =
                           [time |-> in.t[i].wall, open |-> in.o[i], high |-> in.h[i],
                            low |-> in.l[i], close |-> in.c[i]]
       /\ RenderStep =>
             /\ SeriesCount(Added, Candlestick) = 0
             /\ content'[1].params.drawings = drawings']_vars

\* a render after one add_ohlcv of MaxLen rows, the first dated in another zone than UTC
C2_RenderedCandles ==
    /\ last.op = "html"
    /\ SeriesCount(content[1].params.drawings, Candlestick) = 1
    /\ \E i \in 1..Len(content[1].params.drawings) :
          LET instr == content[1].params.drawings[i]
          IN  /\ IsSeriesOf(instr, Candlestick)
              /\ Len(instr.params.data) = MaxLen
              /\ instr.params.data[1].time = DateB.wall
              /\ instr.params.data[MaxLen].close = 400 + MaxLen

VolumeAdded ==
    \E i \in 1..Len(Added) :
        IsSeriesOf(Added[i], Histogram) /\ Added[i].params.series_name = "volume"

\* C3: an add_ohlcv call that returns adds a Histogram instruction named "volume"
\* exactly if v is given and not empty; its options then have
\* priceFormat = {type: "volume"} and priceScaleId = "" whatever the caller's
\* volume_options hold, and scaleMargins and color are the caller's where given and
\* the defaults otherwise.
C3_VolumeOptionsForced ==
    [][Returned("add_ohlcv") =>
          LET in == last'.args
          IN  /\ VolumeAdded <=> (in.v # None /\ Len(in.v[1]) > 0)
              /\ VolumeAdded =>
                    LET given == IF in.volume_options = None THEN EmptyDict
                                 ELSE in.volume_options[1]
                        options == Added[Len(Added)].params.options
                    IN  /\ Len(Added) = 2
                        /\ IsSeriesOf(Added[2], Histogram)
                        /\ options.priceFormat = [type |-> "volume"]
                        /\ options.priceScaleId = ""
                        /\ options.scaleMargins =
                              IF "scaleMargins" \in DOMAIN given THEN given.scaleMargins
                              ELSE [top |-> "0.9", bottom |-> "0"]
                        /\ options.color =
                              IF "color" \in DOMAIN given THEN given.color ELSE "#26a69a"
                        /\ DOMAIN options = (DOMAIN given) \cup
                              {"priceFormat", "priceScaleId", "scaleMargins", "color"}]_vars

\* a volume series whose caller asked for another price format and other margins
C3_VolumeOverCallerOptions ==
    /\ last.op = "add_ohlcv"
    /\ last.outcome = "ok"
    /\ last.args.volume_options # None
    /\ "priceFormat" \in DOMAIN last.args.volume_options[1]
    /\ LET instr == drawings[Len(drawings)]
       IN  /\ IsSeriesOf(instr, Histogram)
           /\ instr.params.options.priceFormat # last.args.volume_options[1].priceFormat
           /\ instr.params.options.scaleMargins = [top |-> "0.5", bottom |-> "0"]

\* the rows of series, among the first n, that hold a value
ValueRows(series, n) == {i \in 1..n : series[i] # None}

\* C4: add_series on a builder with an axis adds exactly one instruction; its
\* points are, in order, {time: axis[i], value: series[i]} for the rows i up to the
\* shorter of the axis and the series whose value is not None, a value of 0 included.
C4_SeriesSkipsOnlyNone ==
    [][( Called("add_series") /\ time_series # None )
          => LET in == last'.args
                 axis == time_series[1]
                 n == IF Len(axis) <= Len(in.series) THEN Len(axis) ELSE Len(in.series)
                 rows == ValueRows(in.series, n)
                 data == Added[1].params.data
             IN  /\ last'.outcome = "ok"
                 /\ IsPrefix(drawings, drawings')
                 /\ Len(Added) = 1
                 /\ IsSeriesOf(Added[1], in.type)
                 /\ Added[1].params.series_name = in.name
                 /\ Len(data) = Cardinality(rows)
                 /\ \A i \in rows :
                       data[Cardinality({k \in rows : k <= i})] =
                           [time |-> axis[i], value |-> in.series[i][1]]]_vars

\* a series of a 0 and a None over an axis that starts with two different times:
\* one point, the 0 at the time of its row
C4_ZeroKeptGapSkipped ==
    /\ last.op = "add_series"
    /\ last.outcome = "ok"
    /\ Len(time_series[1]) >= 2
    /\ time_series[1][1] # time_series[1][2]
    /\ last.args.series = <<Some(0), None>>
    /\ drawings[Len(drawings)].params.data = <<[time |-> time_series[1][1], value |-> 0]>>

\* the markers kept for a name: its list, or the empty list when it has none
MarkersOf(markers, name) == DictGet(markers, name, << >>)

\* the other names keep their lists, and every name its place
OthersKept(name) ==
    /\ \A i \in 1..Len(series_markers) :
          /\ series_markers'[i].key = series_markers[i].key
          /\ series_markers[i].key # name => series_markers'[i] = series_markers[i]
    /\ Len(series_markers') =
          IF HasKey(series_markers, name) THEN Len(series_markers)
          ELSE Len(series_markers) + 1

\* C5: no step replaces or reorders the marker list of a name: it only grows at
\* its end, and the names keep their order.  add_markers_by_time puts after the
\* markers already kept for its name one record per pair of its mapping, in the
\* mapping's order (the options spread over the pair's time and text), and leaves
\* the lists of the other names alone, as add_markers_by_idx does; a render flushes,
\* for each name, the list as accumulated.
C5_MarkersAccumulate ==
    [][/\ Len(series_markers) <= Len(series_markers')
       /\ \A i \in 1..Len(series_markers) :
             /\ series_markers'[i].key = series_markers[i].key
             /\ IsPrefix(series_markers[i].value, series_markers'[i].value)
       /\ Called("add_markers_by_time")
             => LET in == last'.args
                    old == MarkersOf(series_markers, in.name)
                    new == MarkersOf(series_markers', in.name)
                IN  /\ last'.outcome = "ok"
                    /\ Len(new) = Len(old) + Len(in.mapping)
                    /\ IsPrefix(old, new)
                    /\ \A i \in 1..Len(in.mapping) :
                          LET record == new[Len(old) + i]
                          IN  /\ DOMAIN record = {"time", "text"} \cup DOMAIN in.options
                              /\ \A f \in DOMAIN in.options : record[f] = in.options[f]
                              /\ "time" \notin DOMAIN in.options
                                    => record.time = in.mapping[i].key
                              /\ "text" \notin DOMAIN in.options
                                    => record.text = in.mapping[i].value
                    /\ OthersKept(in.name)
       /\ Returned("add_markers_by_idx") => OthersKept(last'.args.name)
       /\ RenderStep =>
             \A i \in 1..Len(series_markers) :
                 Added[i].params.data = series_markers[i].value]_vars

\* a render after two add_markers_by_time calls for "ohlc", of one and of two pairs:
\* three markers, the first call's before the second's
C5_TwoCallsFlushed ==
    /\ last.op = "html"
    /\ \E i \in 1..Len(content[1].params.drawings) :
          LET instr == content[1].params.drawings[i]
          IN  /\ IsMarkersFor(instr, "ohlc")
              /\ Len(instr.params.data) = 3
              /\ instr.params.data[1] = DictSpread([time |-> 10, text |-> "a"],
                                                   DefaultMarkerOptions)
              /\ instr.params.data[2].time = 20
              /\ instr.params.data[3] = DictSpread([time |-> 10, text |-> "b"],
                                                   DefaultMarkerOptions)

\* C6: every marker record add_markers_by_time builds from a pair (time, text) has
\* that time and that text, whatever the options hold.
C6_OptionsKeepTimeAndText ==
    [][Called("add_markers_by_time")
          => LET in == last'.args
                 old == MarkersOf(series_markers, in.name)
                 new == MarkersOf(series_markers', in.name)
             IN  \A i \in 1..Len(in.mapping) :
                    /\ new[Len(old) + i].time = in.mapping[i].key
                    /\ new[Len(old) + i].text = in.mapping[i].value]_vars

\* k is an index of the axis: 0 .. len(axis) - 1, none when there is no axis
IsAxisIndex(k) == time_series # None /\ 0 <= k /\ k < Len(time_series[1])

\* C7: add_markers_by_idx and add_lines_by_idx given an index outside
\* 0 .. len(axis) - 1, a negative one included, and add_series, add_markers_by_idx
\* and add_lines_by_idx called before there is an axis, raise and add nothing.
C7_BadIndexRaises ==
    [][/\ ( /\ Called("add_markers_by_idx")
            /\ \/ time_series = None
               \/ \E i \in 1..Len(last'.args.mapping) :
                     ~IsAxisIndex(last'.args.mapping[i].key) )
          => Failed
       /\ ( /\ Called("add_lines_by_idx")
            /\ \/ time_series = None
               \/ \E i \in 1..Len(last'.args.lines) :
                     \/ ~IsAxisIndex(last'.args.lines[i][1])
                     \/ ~IsAxisIndex(last'.args.lines[i][3]) )
          => Failed
       /\ ( Called("add_series") /\ time_series = None ) => Failed]_vars

\* C8: an add_ohlcv call with a timestamp that does not parse, at whichever
\* position, raises the parse error and leaves the axis, the instruction list, the
\* marker accumulator and the rest of the builder as they were.
C8_ParseErrorLeavesBuilder ==
    [][( Called("add_ohlcv") /\ ~AllParse(last'.args.t) )
          => /\ last'.outcome = "ParserError"
             /\ time_series' = time_series
             /\ drawings' = drawings
             /\ series_markers' = series_markers
             /\ UNCHANGED <<chart_options, legend_html, content, files>>]_vars

\* the parse error of a call whose second timestamp does not parse, on a builder
\* that has an axis, instructions and markers
C8_FailedOnBuiltChart ==
    /\ last.op = "add_ohlcv"
    /\ last.outcome = "ParserError"
    /\ last.args.t[1].valid
    /\ time_series # None
    /\ drawings # << >>
    /\ series_markers # << >>

\* C9: add_markers_by_idx with a mapping of n indices, all of them indices of the
\* axis, puts exactly n records after the markers kept for its name: for the i-th
\* index k, the record with time = axis[k] and text = the text mapped to k.
C9_OneMarkerPerIndex ==
    [][( /\ Called("add_markers_by_idx")
         /\ \A i \in 1..Len(last'.args.mapping) : IsAxisIndex(last'.args.mapping[i].key) )
          => LET in == last'.args
                 old == MarkersOf(series_markers, in.name)
                 new == MarkersOf(series_markers', in.name)
             IN  /\ last'.outcome = "ok"
                 /\ Len(new) = Len(old) + Len(in.mapping)
                 /\ IsPrefix(old, new)
                 /\ \A i \in 1..Len(in.mapping) :
                       /\ new[Len(old) + i].time = time_series[1][in.mapping[i].key + 1]
                       /\ new[Len(old) + i].text = in.mapping[i].value]_vars

\* C10: every step leaves the instructions of the list as they are and where they
\* are, adding new ones only at its end, and a render returns the list in that order.
C10_InstructionsAppendOnly ==
    [][/\ IsPrefix(drawings, drawings')
       /\ RenderStep => content'[1].params.drawings = drawings']_vars

\* a second add_ohlcv has replaced the axis, and the line drawn from the old axis
\* still starts at the old axis' first time
C10_OldAxisInstructionKept ==
    /\ last.op = "add_ohlcv"
    /\ last.outcome = "ok"
    /\ Len(drawings) = 3
    /\ \A i \in 1..3 :
          /\ IsSeriesOf(drawings[i], IF i = 2 THEN Line ELSE Candlestick)
          /\ drawings[i].params.data # << >>
    /\ drawings[2].params.series_name = "trend0"
    /\ drawings[1].params.data[1].time = drawings[2].params.data[1].time
    /\ drawings[3].params.data[1].time # drawings[2].params.data[1].time
    /\ time_series[1][1] = drawings[3].params.data[1].time

====
